---- MODULE Spec2Model ----
(***************************************************************************)
(* Model of the Go code-structure analyzer in src/main.go: declaration     *)
(* extraction into the global registry allNodes (buildProjectStructure /   *)
(* processGoFile) followed by call resolution (analyzeFunctionCalls /      *)
(* resolveCallExpr), which links CodeNodes through Calls and CalledBy.     *)
(*                                                                         *)
(* Strings are sequences of one-character strings, so that key building    *)
(* (concatenation with ":" and "."), filepath.Dir and strings.Split are    *)
(* computed and not assumed.                                               *)
(***************************************************************************)
EXTENDS Integers, Sequences, FiniteSets, TLC

VARIABLES
    order,          \* the .go files in the order filepath.Walk visits them
    pc,             \* position of main: "build", "analyze", "render", "done"
    extractIdx,     \* next file of the walk of buildProjectStructure
    resolveIdx,     \* next (or current) file of the walk of analyzeFunctionCalls
    fileOpen,       \* ast.Inspect of order[resolveIdx] is in progress
    nodeIdx,        \* next AST node of the traversal of the open file
    packageKey,     \* analyzeFunctionCalls: packageKey of the open file
    importMap,      \* analyzeFunctionCalls: importMap of the open file
    currentFunc,    \* analyzeFunctionCalls: currentFunc != nil
    currentFuncKey, \* analyzeFunctionCalls: currentFuncKey
    nodes,          \* the heap of CodeNodes, addressed by index (pointer identity)
    allNodes,       \* the global registry: key -> index into nodes
    packages,       \* buildProjectStructure: packageKey -> index into nodes
    codeRoot,       \* codeRoot.Children (indices into nodes)
    dirNodes,       \* the heap of TreeNodes of the directory tree; dirRoot is 1
    callCounts,     \* analyzeFunctionCalls: callCounts
    graphOut,       \* the Mermaid graph of renderFunctionCallGraph
    ranking         \* the rows of the table of addMostCalledFunctionsToOutput

vars == <<order, pc, extractIdx, resolveIdx, fileOpen, nodeIdx, packageKey,
          importMap, currentFunc, currentFuncKey, nodes, allNodes, packages,
          codeRoot, dirNodes, callCounts, graphOut, ranking>>

----------------------------------------------------------------------------
(* Bounds *)

MaxUnits == 3

\* the units of a batch in the termination check
MaxFairUnits == 2

----------------------------------------------------------------------------
(* Strings *)

Empty == <<>>
Colon == <<":">>
Dot == <<".">>
Slash == <<"/">>
GoExt == <<".", "g", "o">>
\* the double quote and the back quote, which a TLA+ string cannot hold
DQ == "QUOTE"
BQ == "BACKQUOTE"

sA == <<"A">>
sB == <<"B">>
sC == <<"C">>
sE == <<"E">>
sM == <<"M">>
sT == <<"T">>
sDo == <<"D", "o">>
sInit == <<"i", "n", "i", "t">>
sP == <<"p">>
sU == <<"u">>
sX == <<"x">>
sT1 == <<"t">>
sLU == <<"l", "/", "u">>
sLX == <<"l", "/", "x">>
sRepo == <<"r">>
sVendor == <<"v", "e", "n", "d", "o", "r">>
sGit == <<".", "g", "i", "t">>

\* index of the last "/" of s, 0 when there is none
RECURSIVE LastSlash(_, _)
LastSlash(s, i) ==
    IF i = 0 THEN 0
    ELSE IF s[i] = "/" THEN i
    ELSE LastSlash(s, i - 1)

\* filepath.Dir of a clean relative path
Dir(p) ==
    LET i == LastSlash(p, Len(p))
    IN  IF i = 0 THEN Dot ELSE SubSeq(p, 1, i - 1)

\* pathParts[len(pathParts)-1] of strings.Split(importPath, "/")
LastSegment(p) == SubSeq(p, LastSlash(p, Len(p)) + 1, Len(p))

----------------------------------------------------------------------------
(* Parsed compilation units: what go/parser hands to the analyzer *)

NoImports == <<>>

\* an *ast.ImportSpec; name is Empty when imp.Name == nil. The path is written
\* as an interpreted string literal "path" or as a raw one, `path`
Import(name, path) == [name |-> name, path |-> path, raw |-> FALSE]
ImportRaw(name, path) == [name |-> name, path |-> path, raw |-> TRUE]

\* imp.Path.Value: the literal as it stands in the source, quotes included
PathValue(imp) ==
    IF imp.raw THEN <<BQ>> \o imp.path \o <<BQ>> ELSE <<DQ>> \o imp.path \o <<DQ>>

\* strings.Trim(s, cutset) for a cutset of one character
RECURSIVE TrimLeft(_, _)
TrimLeft(s, c) == IF s # <<>> /\ Head(s) = c THEN TrimLeft(Tail(s), c) ELSE s
RECURSIVE TrimRight(_, _)
TrimRight(s, c) ==
    IF s # <<>> /\ s[Len(s)] = c THEN TrimRight(SubSeq(s, 1, Len(s) - 1), c) ELSE s
Trim(s, c) == TrimRight(TrimLeft(s, c), c)

\* an *ast.CallExpr, by the shape of callExpr.Fun
\*   "ident"    f(...)          sel = f
\*   "selIdent" x.sel(...)      x an identifier whose declared type is xtype
\*   "selOther" <expr>.sel(...) the base is not an identifier
\*   "other"    f()(...), func(){}(), a[i](...), ...
IdentCall(f) == [shape |-> "ident", x |-> Empty, sel |-> f, xtype |-> Empty]
SelCall(x, sel, xtype) == [shape |-> "selIdent", x |-> x, sel |-> sel, xtype |-> xtype]
SelOtherCall(sel) == [shape |-> "selOther", x |-> Empty, sel |-> sel, xtype |-> Empty]
OtherCall == [shape |-> "other", x |-> Empty, sel |-> Empty, xtype |-> Empty]

\* top-level declarations; recv is the shape of funcDecl.Recv.List[0].Type:
\*   "none" no receiver, "ident" T, "star" *T, "other" T[K], (T), *T[K], ...
FuncD(name, body) ==
    [kind |-> "func", name |-> name, recv |-> "none", rname |-> Empty,
     tkind |-> "", body |-> body]
MethodD(recv, rname, name, body) ==
    [kind |-> "func", name |-> name, recv |-> recv, rname |-> rname,
     tkind |-> "", body |-> body]
\* tkind: "struct", "interface" or "other" by the shape of typeSpec.Type
TypeD(name, tkind) ==
    [kind |-> "type", name |-> name, recv |-> "none", rname |-> Empty,
     tkind |-> tkind, body |-> <<>>]
\* a package-level var/const declaration whose initializers hold the calls body
VarD(body) ==
    [kind |-> "var", name |-> Empty, recv |-> "none", rname |-> Empty,
     tkind |-> "", body |-> body]

Unit(relPath, pkg, ok, imports, decls) ==
    [relPath |-> relPath, pkg |-> pkg, ok |-> ok, imports |-> imports,
     decls |-> decls]

\* p/a.go
\*   package p; import u "l/u"
\*   var _ = B()
\*   func A() { B(); B(); u.Do(); t.M() }     (t is a T)
\*   var _ = C()
UnitA ==
    Unit(sP \o Slash \o <<"a">> \o GoExt, sP, TRUE,
         <<Import(sU, sLU)>>,
         <<VarD(<<IdentCall(sB)>>),
           FuncD(sA, <<IdentCall(sB), IdentCall(sB), SelCall(sU, sDo, Empty),
                       SelCall(sT1, sM, sT)>>),
           VarD(<<IdentCall(sC)>>)>>)

\* p/b.go
\*   package p
\*   func B() { A(); T.M(); x.M(); C() }
\*   type T struct{}
\*   func (t *T) M() {}
\*   func C() {}
UnitB ==
    Unit(sP \o Slash \o <<"b">> \o GoExt, sP, TRUE, NoImports,
         <<FuncD(sB, <<IdentCall(sA), SelCall(sT, sM, Empty),
                       SelCall(sX, sM, sX), IdentCall(sC)>>),
           TypeD(sT, "struct"),
           MethodD("star", sT, sM, <<>>),
           FuncD(sC, <<>>)>>)

\* p/c.go
\*   package p
\*   func init() { A() }
\*   func init() { B() }
\*   func B() { T(0) }
UnitC ==
    Unit(sP \o Slash \o <<"c">> \o GoExt, sP, TRUE, NoImports,
         <<FuncD(sInit, <<IdentCall(sA)>>),
           FuncD(sInit, <<IdentCall(sB)>>),
           FuncD(sB, <<IdentCall(sT)>>)>>)

\* l/u/d.go
\*   package u
\*   func Do() { Do() }
UnitD ==
    Unit(sLU \o Slash \o <<"d">> \o GoExt, sU, TRUE, NoImports,
         <<FuncD(sDo, <<IdentCall(sDo)>>)>>)

\* p/e.go
\*   package p; import x "l/u"; import "l/x"
\*   type x int
\*   func (r x) M() {}
\*   func E() { x.M(); f()(); a.b.C() }
UnitE ==
    Unit(sP \o Slash \o <<"e">> \o GoExt, sP, TRUE,
         <<Import(sX, sLU), Import(Empty, sLX)>>,
         <<TypeD(sX, "other"),
           MethodD("ident", sX, sM, <<>>),
           FuncD(sE, <<SelCall(sX, sM, Empty), OtherCall, SelOtherCall(sC)>>)>>)

\* p/g.go
\*   package p
\*   func (T[K]) C() { B() }
UnitG ==
    Unit(sP \o Slash \o <<"g">> \o GoExt, sP, TRUE, NoImports,
         <<MethodD("other", sT, sC, <<IdentCall(sB)>>)>>)

\* a.go, in the repository root
\*   package p; import `l/u`
\*   func A() { B(); u.Do() }
\*   func B() {}
UnitR ==
    Unit(<<"a">> \o GoExt, sP, TRUE, <<ImportRaw(Empty, sLU)>>,
         <<FuncD(sA, <<IdentCall(sB), SelCall(sU, sDo, Empty)>>), FuncD(sB, <<>>)>>)

\* p/z.go: a file the parser rejects (whatever partial AST it returns)
UnitBad ==
    Unit(sP \o Slash \o <<"z">> \o GoExt, sP, FALSE, NoImports,
         <<FuncD(sA, <<IdentCall(sB)>>), FuncD(sB, <<>>)>>)

Units == {UnitA, UnitB, UnitC, UnitD, UnitE, UnitG, UnitR, UnitBad}

Range(s) == {s[i] : i \in DOMAIN s}

\* the walks the file system can produce: files are distinct paths. The walk
\* also hands every directory to addNodeToTree before the files below it;
\* the nodes that makes are the ones the path of the first file below makes.
Orders ==
    {o \in UNION {[1..n -> Units] : n \in 1..MaxUnits} :
        \A i, j \in DOMAIN o : i # j => o[i].relPath # o[j].relPath}

----------------------------------------------------------------------------
(* Declaration extraction: buildProjectStructure, processGoFile *)

MapPut(m, k, v) == [x \in DOMAIN m \cup {k} |-> IF x = k THEN v ELSE m[x]]

CodeNode(name, type, filePath, receiver) ==
    [Name |-> name, Type |-> type, FilePath |-> filePath, Receiver |-> receiver,
     Children |-> <<>>, Calls |-> <<>>, CalledBy |-> <<>>]

\* packageKey := packagePath + ":" + packageName
PackageKey(u) == Dir(u.relPath) \o Colon \o u.pkg

\* processFunction: the receiver name is taken from T and *T only
processFunction(d, relPath) ==
    CodeNode(d.name,
             IF d.recv = "none" THEN "function" ELSE "method",
             relPath,
             IF d.recv \in {"ident", "star"} THEN d.rname ELSE Empty)

processType(d, relPath) ==
    CodeNode(d.name,
             CASE d.tkind = "struct" -> "struct"
               [] d.tkind = "interface" -> "interface"
               [] OTHER -> "type",
             relPath, Empty)

\* the key under which processGoFile stores a node in allNodes
NodeName(pkgKey, n) ==
    IF n.Receiver # Empty
    THEN pkgKey \o Colon \o n.Receiver \o Dot \o n.Name
    ELSE pkgKey \o Colon \o n.Name

\* allNodes[nodeName] = node
RegistryInsert(reg, key, id) == MapPut(reg, key, id)

\* the child put in front of its siblings
PrependChild(ns, parent, child) ==
    [ns EXCEPT ![parent].Children = <<child>> \o @]

AppendChild(ns, parent, child) ==
    [ns EXCEPT ![parent].Children = Append(@, child)]

\* the loop over file.Decls; st = [nodes, allNodes]
RECURSIVE ProcessDecls(_, _, _, _, _, _)
ProcessDecls(st, pkgIdx, pkgKey, relPath, decls, i) ==
    IF i > Len(decls) THEN st
    ELSE
        LET d == decls[i] IN
        IF d.kind = "var" THEN ProcessDecls(st, pkgIdx, pkgKey, relPath, decls, i + 1)
        ELSE
            LET n == IF d.kind = "func" THEN processFunction(d, relPath)
                     ELSE processType(d, relPath)
                id == Len(st.nodes) + 1
                st1 == [nodes |-> AppendChild(Append(st.nodes, n), pkgIdx, id),
                        allNodes |-> RegistryInsert(st.allNodes, NodeName(pkgKey, n), id)]
            IN  ProcessDecls(st1, pkgIdx, pkgKey, relPath, decls, i + 1)

----------------------------------------------------------------------------
(* The directory tree: addNodeToTree, sortTree *)

\* the characters of the model in byte order, for the < of Go strings
AsciiOrder ==
    <<DQ, ".", "/", ":", "A", "B", "C", "D", "E", "M", "T", "_", BQ,
      "a", "b", "c", "d", "e", "g", "i", "l", "n", "o", "p", "r", "t", "u",
      "v", "x", "z">>
Ord(c) == CHOOSE i \in DOMAIN AsciiOrder : AsciiOrder[i] = c

\* a < b on Go strings
RECURSIVE StrLess(_, _)
StrLess(a, b) ==
    IF b = <<>> THEN FALSE
    ELSE IF a = <<>> THEN TRUE
    ELSE IF Head(a) # Head(b) THEN Ord(Head(a)) < Ord(Head(b))
    ELSE StrLess(Tail(a), Tail(b))

\* strings.Split(p, "/")
RECURSIVE Split(_, _, _)
Split(p, i, cur) ==
    IF i > Len(p) THEN <<cur>>
    ELSE IF p[i] = "/" THEN <<cur>> \o Split(p, i + 1, <<>>)
    ELSE Split(p, i + 1, Append(cur, p[i]))

TreeNode(name, isDir) == [Name |-> name, IsDir |-> isDir, Children |-> <<>>]

\* the child of current named part, 0 when there is none
ChildNamed(tn, current, part) ==
    LET found == {i \in DOMAIN tn[current].Children :
                    tn[tn[current].Children[i]].Name = part}
    IN  IF found = {} THEN 0
        ELSE tn[current].Children[CHOOSE i \in found : \A j \in found : i <= j]

\* the loop of addNodeToTree over the parts of the path
RECURSIVE AddParts(_, _, _, _, _)
AddParts(tn, current, parts, i, isDir) ==
    IF i > Len(parts) THEN tn
    ELSE
        LET child == ChildNamed(tn, current, parts[i]) IN
        IF child # 0 THEN AddParts(tn, child, parts, i + 1, isDir)
        ELSE LET id == Len(tn) + 1
                 newNode == TreeNode(parts[i], i # Len(parts) \/ isDir)
                 tn1 == [Append(tn, newNode) EXCEPT ![current].Children = Append(@, id)]
             IN  AddParts(tn1, id, parts, i + 1, isDir)

addNodeToTree(tn, root, path, isDir) == AddParts(tn, root, Split(path, 1, <<>>), 1, isDir)

\* a comparison that forgets the directories-first rule
treeLessByName(tn, a, b) == StrLess(tn[a].Name, tn[b].Name)

\* the less function sortTree hands to sort.Slice
treeLess(tn, a, b) ==
    IF tn[a].IsDir # tn[b].IsDir THEN tn[a].IsDir
    ELSE StrLess(tn[a].Name, tn[b].Name)

\* sort.Slice on a slice of fewer than 12 elements is an insertion sort:
\* element x moves left while less(x, left neighbour)
RECURSIVE InsertFromRight(_, _, _, _)
InsertFromRight(tn, s, x, j) ==
    IF j = 0 \/ ~treeLess(tn, x, s[j])
    THEN SubSeq(s, 1, j) \o <<x>> \o SubSeq(s, j + 1, Len(s))
    ELSE InsertFromRight(tn, s, x, j - 1)

RECURSIVE SortSlice(_, _, _)
SortSlice(tn, s, i) ==
    IF i > Len(s) THEN s
    ELSE CHOOSE r \in {SortSlice(tn, s1, i + 1) :
                        s1 \in {InsertFromRight(tn, SubSeq(s, 1, i - 1), s[i], i - 1)
                                    \o SubSeq(s, i + 1, Len(s))}} : TRUE

\* sortTree: sort the children of node, then the subtree of every child
\* (the singleton sets name the tree after each step)
RECURSIVE sortTree(_, _)
RECURSIVE SortSubtrees(_, _, _)
sortTree(tn, node) ==
    CHOOSE r \in {SortSubtrees(tn1, tn1[node].Children, 1) :
                    tn1 \in {[tn EXCEPT ![node].Children = SortSlice(tn, @, 1)]}} : TRUE
SortSubtrees(tn, cs, i) ==
    IF i > Len(cs) THEN tn
    ELSE CHOOSE r \in {SortSubtrees(tn1, cs, i + 1) :
                        tn1 \in {sortTree(tn, cs[i])}} : TRUE

\* the base names the directory given by -path can have
RootNames == {sRepo, sVendor, sGit}

TypeOK ==
    /\ order \in Orders
    /\ pc \in {"build", "analyze", "render", "done"}
    /\ extractIdx \in 1..(Len(order) + 1)
    /\ resolveIdx \in 1..(Len(order) + 1)
    /\ fileOpen \in BOOLEAN
    /\ nodeIdx \in Nat
    /\ currentFunc \in BOOLEAN
    /\ \A k \in DOMAIN allNodes : allNodes[k] \in 1..Len(nodes)
    /\ \A k \in DOMAIN packages : packages[k] \in 1..Len(nodes)
    /\ \A k \in DOMAIN callCounts : callCounts[k] \in Nat \ {0}

Init ==
    /\ order \in Orders
    /\ pc = "build"
    /\ extractIdx = 1
    /\ resolveIdx = 1
    /\ fileOpen = FALSE
    /\ nodeIdx = 1
    /\ packageKey = Empty
    /\ importMap = <<>>
    /\ currentFunc = FALSE
    /\ currentFuncKey = Empty
    /\ nodes = <<>>
    /\ allNodes = <<>>
    /\ packages = <<>>
    /\ codeRoot = <<>>
    /\ dirNodes \in {<<TreeNode(r, TRUE)>> : r \in RootNames}
    /\ callCounts = <<>>
    /\ graphOut = [nodes |-> {}, edges |-> {}]
    /\ ranking = <<>>

\* a parser that reports no error and hands over what it could read
ParseFailsNever(u) == FALSE

\* parser.ParseFile returns err != nil
ParseFails(u) == ~u.ok

\* a parse failure that ends the run (os.Exit) where the code returns
OnParseErrorFatal(p) == "exit"

\* processGoFile, `return // Skip files with parsing errors`: main goes on
OnParseError(p) == p

renderVars == <<graphOut, ranking>>

analyzeVars == <<resolveIdx, fileOpen, nodeIdx, packageKey, importMap,
                 currentFunc, currentFuncKey, callCounts>>

\* processGoFile on a file the parser rejects: return
ExtractParseError ==
    /\ pc = "build"
    /\ extractIdx <= Len(order)
    /\ ParseFails(order[extractIdx])
    /\ dirNodes' = addNodeToTree(dirNodes, 1, order[extractIdx].relPath, FALSE)
    /\ extractIdx' = extractIdx + 1
    /\ pc' = OnParseError(pc)
    /\ UNCHANGED <<order, nodes, allNodes, packages, codeRoot, analyzeVars>>
    /\ UNCHANGED renderVars

\* processGoFile on a file that parses
ExtractFile ==
    /\ pc = "build"
    /\ extractIdx <= Len(order)
    /\ ~ParseFails(order[extractIdx])
    /\ LET u == order[extractIdx]
           pkgKey == PackageKey(u)
           exists == pkgKey \in DOMAIN packages
           pkgIdx == IF exists THEN packages[pkgKey] ELSE Len(nodes) + 1
           nodes1 == IF exists THEN nodes
                     ELSE Append(nodes, CodeNode(u.pkg, "package", Dir(u.relPath), Empty))
           st == ProcessDecls([nodes |-> nodes1, allNodes |-> allNodes],
                              pkgIdx, pkgKey, u.relPath, u.decls, 1)
       IN  /\ packages' = IF exists THEN packages ELSE MapPut(packages, pkgKey, pkgIdx)
           /\ codeRoot' = IF exists THEN codeRoot ELSE Append(codeRoot, pkgIdx)
           /\ nodes' = st.nodes
           /\ allNodes' = st.allNodes
    /\ dirNodes' = addNodeToTree(dirNodes, 1, order[extractIdx].relPath, FALSE)
    /\ extractIdx' = extractIdx + 1
    /\ UNCHANGED <<order, pc, analyzeVars>>
    /\ UNCHANGED renderVars

\* buildProjectStructure sorts the directory tree and returns; main goes on
\* to analyzeFunctionCalls
FinishBuild ==
    /\ pc = "build"
    /\ extractIdx > Len(order)
    /\ dirNodes' = sortTree(dirNodes, 1)
    /\ pc' = "analyze"
    /\ UNCHANGED <<order, extractIdx, nodes, allNodes, packages, codeRoot, analyzeVars>>
    /\ UNCHANGED renderVars

----------------------------------------------------------------------------
(* Call resolution: analyzeFunctionCalls *)

\* buildImportMap: importMap[importName] = importPath, in the order of file.Imports
RECURSIVE buildImportMap(_, _, _)
buildImportMap(m, imports, i) ==
    IF i > Len(imports) THEN m
    ELSE
        LET imp == imports[i]
            importPath == Trim(PathValue(imp), DQ)
            importName == IF imp.name # Empty THEN imp.name ELSE LastSegment(importPath)
        IN  buildImportMap(MapPut(m, importName, importPath), imports, i + 1)

\* getReceiverTypeName of funcDecl.Recv.List[0].Type
getReceiverTypeName(d) ==
    IF d.recv \in {"ident", "star"} THEN d.rname ELSE Empty

buildFunctionKey(pkgKey, d) ==
    IF d.recv # "none" /\ getReceiverTypeName(d) # Empty
    THEN pkgKey \o Colon \o getReceiverTypeName(d) \o Dot \o d.name
    ELSE pkgKey \o Colon \o d.name

\* a resolver that never consults the import map
resolveCallExprNoAlias(c, pkgKey, imap) ==
    CASE c.shape = "ident" -> pkgKey \o Colon \o c.sel
      [] c.shape = "selIdent" -> pkgKey \o Colon \o c.x \o Dot \o c.sel
      [] OTHER -> Empty

\* a resolver that uses the declared type of the base where it is known
resolveCallExprTyped(c, pkgKey, imap) ==
    CASE c.shape = "ident" -> pkgKey \o Colon \o c.sel
      [] c.shape = "selIdent" ->
            IF c.x \in DOMAIN imap
            THEN imap[c.x] \o Colon \o c.sel
            ELSE pkgKey \o Colon \o (IF c.xtype # Empty THEN c.xtype ELSE c.x)
                        \o Dot \o c.sel
      [] OTHER -> Empty

\* a resolver that builds the key of an imported function the way the
\* registry does, with the last segment of the path as the package name
resolveCallExprQualified(c, pkgKey, imap) ==
    CASE c.shape = "ident" -> pkgKey \o Colon \o c.sel
      [] c.shape = "selIdent" ->
            IF c.x \in DOMAIN imap
            THEN imap[c.x] \o Colon \o LastSegment(imap[c.x]) \o Colon \o c.sel
            ELSE pkgKey \o Colon \o c.x \o Dot \o c.sel
      [] OTHER -> Empty

\* resolveCallExpr; Empty is the "" of an unknown call type
resolveCallExpr(c, pkgKey, imap) ==
    CASE c.shape = "ident" -> pkgKey \o Colon \o c.sel
      [] c.shape = "selIdent" ->
            IF c.x \in DOMAIN imap
            THEN imap[c.x] \o Colon \o c.sel
            ELSE pkgKey \o Colon \o c.x \o Dot \o c.sel
      [] OTHER -> Empty

\* a scan that never finds the callee
functionCallExistsNever(ns, caller, callee) == FALSE

\* functionCallExists: linear scan of caller.Calls
functionCallExists(ns, caller, callee) ==
    \E i \in DOMAIN ns[caller].Calls : ns[caller].Calls[i] = callee

\* the edge without its back reference
AddEdgeNoCalledBy(ns, caller, callee) ==
    IF functionCallExists(ns, caller, callee) THEN ns
    ELSE [ns EXCEPT ![caller].Calls = Append(@, callee)]

\* main.go 632-635: the two appends, unless the call is already recorded
AddEdge(ns, caller, callee) ==
    IF functionCallExists(ns, caller, callee) THEN ns
    ELSE LET ns1 == [ns EXCEPT ![caller].Calls = Append(@, callee)]
         IN  [ns1 EXCEPT ![callee].CalledBy = Append(@, caller)]

\* main.go 629-637: both keys are looked up in allNodes
Link(ns, reg, callerKey, calleeKey) ==
    IF callerKey \in DOMAIN reg /\ calleeKey \in DOMAIN reg
    THEN AddEdge(ns, reg[callerKey], reg[calleeKey])
    ELSE ns

\* a count that only records that the key was called
IncrementOnce(cc, k) == MapPut(cc, k, 1)

Increment(cc, k) == MapPut(cc, k, IF k \in DOMAIN cc THEN cc[k] + 1 ELSE 1)

\* The nodes ast.Inspect hands to the callback that the callback acts on, in
\* depth-first order: each FuncDecl followed by the calls of its body, and the
\* calls of the initializers of each package-level declaration.
\* inBody: the call lies inside the body of the FuncDecl d.
FuncEvent(d) == [ev |-> "func", d |-> d, call |-> OtherCall, inBody |-> FALSE]
CallEvent(d, i) ==
    [ev |-> "call", d |-> d, call |-> d.body[i], inBody |-> (d.kind = "func")]

RECURSIVE Walk(_, _)
Walk(decls, i) ==
    IF i > Len(decls) THEN <<>>
    ELSE
        LET d == decls[i]
            calls == [j \in 1..Len(d.body) |-> CallEvent(d, j)]
        IN  (IF d.kind = "func" THEN <<FuncEvent(d)>> ELSE <<>>)
                \o calls \o Walk(decls, i + 1)

CurrentWalk == Walk(order[resolveIdx].decls, 1)
CurrentEvent == CurrentWalk[nodeIdx]

\* a single pass: a file is resolved as soon as it has been extracted
AnalysisStartedPerFile == extractIdx > resolveIdx

\* main calls analyzeFunctionCalls after buildProjectStructure has returned
AnalysisStarted == pc = "analyze"

buildVars == <<extractIdx, allNodes, packages, codeRoot, dirNodes>>

\* filepath.Base(repoPath), which is also info.Name() of the root of the walk
repoName == dirNodes[1].Name

\* the callback of filepath.Walk returns SkipDir for the root itself when it
\* is named vendor or .git, and the walk ends without opening a file
SkipRoot == repoName = sVendor \/ repoName = sGit

\* the walk callback on a file the parser rejects: return nil
AnalyzeParseError ==
    /\ AnalysisStarted
    /\ ~SkipRoot
    /\ ~fileOpen
    /\ resolveIdx <= Len(order)
    /\ ParseFails(order[resolveIdx])
    /\ resolveIdx' = resolveIdx + 1
    /\ UNCHANGED <<order, pc, fileOpen, nodeIdx, packageKey, importMap,
                   currentFunc, currentFuncKey, nodes, callCounts, buildVars>>
    /\ UNCHANGED renderVars

\* the walk callback on a file that parses, up to the call of ast.Inspect
AnalyzeOpenFile ==
    /\ AnalysisStarted
    /\ ~SkipRoot
    /\ ~fileOpen
    /\ resolveIdx <= Len(order)
    /\ ~ParseFails(order[resolveIdx])
    /\ fileOpen' = TRUE
    /\ nodeIdx' = 1
    /\ packageKey' = PackageKey(order[resolveIdx])
    /\ importMap' = buildImportMap(<<>>, order[resolveIdx].imports, 1)
    /\ currentFunc' = FALSE
    /\ currentFuncKey' = Empty
    /\ UNCHANGED <<order, pc, resolveIdx, nodes, callCounts, buildVars>>
    /\ UNCHANGED renderVars

\* the ast.Inspect callback, case *ast.FuncDecl
VisitFuncDecl ==
    /\ fileOpen
    /\ nodeIdx <= Len(CurrentWalk)
    /\ CurrentEvent.ev = "func"
    /\ currentFunc' = TRUE
    /\ currentFuncKey' = buildFunctionKey(packageKey, CurrentEvent.d)
    /\ nodeIdx' = nodeIdx + 1
    /\ UNCHANGED <<order, pc, resolveIdx, fileOpen, packageKey, importMap,
                   nodes, callCounts, buildVars>>
    /\ UNCHANGED renderVars

\* the ast.Inspect callback, case *ast.CallExpr
VisitCallExpr ==
    /\ fileOpen
    /\ nodeIdx <= Len(CurrentWalk)
    /\ CurrentEvent.ev = "call"
    /\ LET calledFuncKey == resolveCallExpr(CurrentEvent.call, packageKey, importMap)
       IN  IF currentFunc /\ calledFuncKey # Empty
           THEN /\ callCounts' = Increment(callCounts, calledFuncKey)
                /\ nodes' = Link(nodes, allNodes, currentFuncKey, calledFuncKey)
           ELSE UNCHANGED <<callCounts, nodes>>
    /\ nodeIdx' = nodeIdx + 1
    /\ UNCHANGED <<order, pc, resolveIdx, fileOpen, packageKey, importMap,
                   currentFunc, currentFuncKey, buildVars>>
    /\ UNCHANGED renderVars

\* ast.Inspect returns and the walk callback with it
CloseFile ==
    /\ fileOpen
    /\ nodeIdx > Len(CurrentWalk)
    /\ fileOpen' = FALSE
    /\ resolveIdx' = resolveIdx + 1
    /\ UNCHANGED <<order, pc, nodeIdx, packageKey, importMap, currentFunc,
                   currentFuncKey, nodes, callCounts, buildVars>>
    /\ UNCHANGED renderVars

\* analyzeFunctionCalls returns callCounts; main goes on to render the report
FinishAnalyze ==
    /\ pc = "analyze"
    /\ ~fileOpen
    /\ (SkipRoot \/ resolveIdx > Len(order))
    /\ pc' = "render"
    /\ UNCHANGED <<order, resolveIdx, fileOpen, nodeIdx, packageKey, importMap,
                   currentFunc, currentFuncKey, nodes, callCounts, buildVars>>
    /\ UNCHANGED renderVars

----------------------------------------------------------------------------
(* The report: generateStructureDoc *)

\* strings.ReplaceAll of ":", "." and "/" by "_"
CleanKey(k) == [i \in DOMAIN k |-> IF k[i] \in {":", ".", "/"} THEN "_" ELSE k[i]]

IsCallable(n) == n.Type = "function" \/ n.Type = "method"

\* renderFunctionCallGraph: a node line for every function and method of the
\* registry, an edge line for each of its Calls whose key is found
renderFunctionCallGraph(ns, reg) ==
    LET keys == {k \in DOMAIN reg : IsCallable(ns[reg[k]])}
    IN  [nodes |-> {CleanKey(k) : k \in keys},
         edges |-> {<<CleanKey(e[1]), CleanKey(e[2])>> :
                      e \in {f \in keys \X (DOMAIN reg) :
                                \E i \in DOMAIN ns[reg[f[1]]].Calls :
                                    ns[reg[f[1]]].Calls[i] = reg[f[2]]}}]

\* the orders sort.Slice can leave the keys S in: descending Count; keys of
\* equal Count in any order, since the slice is filled by ranging over the
\* map callCounts and the sort is not stable
RECURSIVE SortedByCount(_, _)
SortedByCount(cc, S) ==
    IF S = {} THEN {<<>>}
    ELSE LET top == {k \in S : \A j \in S : cc[j] <= cc[k]}
         IN  UNION {{<<k>> \o t : t \in SortedByCount(cc, S \ {k})} : k \in top}

\* the row addMostCalledFunctionsToOutput writes for a key of allNodes
Row(ns, reg, cc, k) ==
    [Key |-> k, Name |-> ns[reg[k]].Name, Type |-> ns[reg[k]].Type,
     FilePath |-> ns[reg[k]].FilePath, Count |-> cc[k]]

\* the tables addMostCalledFunctionsToOutput can write: the keys absent from
\* allNodes get no row, so the rows are the registered keys in sorted order
MostCalledTables(ns, reg, cc) ==
    {[i \in DOMAIN t |-> Row(ns, reg, cc, t[i])] :
        t \in SortedByCount(cc, DOMAIN cc \cap DOMAIN reg)}

\* generateStructureDoc, and main writes the report
GenerateDoc ==
    /\ pc = "render"
    /\ graphOut' = renderFunctionCallGraph(nodes, allNodes)
    /\ ranking' \in MostCalledTables(nodes, allNodes, callCounts)
    /\ pc' = "done"
    /\ UNCHANGED <<order, nodes, analyzeVars, buildVars>>

Next ==
    \/ ExtractParseError
    \/ ExtractFile
    \/ FinishBuild
    \/ AnalyzeParseError
    \/ AnalyzeOpenFile
    \/ VisitFuncDecl
    \/ VisitCallExpr
    \/ CloseFile
    \/ FinishAnalyze
    \/ GenerateDoc

Spec == Init /\ [][Next]_vars

\* main runs its steps one after the other: a step that can be taken is taken
FairInit == Init /\ Len(order) <= MaxFairUnits
FairSpec == FairInit /\ [][Next]_vars /\ WF_vars(Next)

----------------------------------------------------------------------------
(* The call graph as the program holds it *)

NodeIds == 1..Len(nodes)
Calls(d) == Range(nodes[d].Calls)
CalledBy(d) == Range(nodes[d].CalledBy)
Occurrences(seq, x) == Cardinality({i \in DOMAIN seq : seq[i] = x})
Registered == {allNodes[k] : k \in DOMAIN allNodes}
AnalysisDone == pc = "render"

\* the node ast.Inspect is about to hand to the callback
AtNode == fileOpen /\ nodeIdx <= Len(CurrentWalk)
AtCall == AtNode /\ CurrentEvent.ev = "call"
CalledKey == resolveCallExpr(CurrentEvent.call, packageKey, importMap)
\* the callback is about to run the edge insertion of lines 629-637
AtResolvedCall == AtCall /\ currentFunc /\ CalledKey # Empty
AtLinkedCall ==
    /\ AtResolvedCall
    /\ currentFuncKey \in DOMAIN allNodes
    /\ CalledKey \in DOMAIN allNodes

\* the events of the open file already handed to the callback
Visited == SubSeq(CurrentWalk, 1, nodeIdx - 1)

----------------------------------------------------------------------------
(* C1: the call graph is symmetric in every reachable state: for all       *)
(* declarations D and E, E occurs in D.Calls iff D occurs in E.CalledBy.   *)
SymmetricCallGraph ==
    \A d, e \in NodeIds : (e \in Calls(d)) <=> (d \in CalledBy(e))

\* an edge between two different declarations exists and resolution went on
SymmetricCallGraphWitness ==
    /\ AnalysisDone
    /\ \E d, e \in NodeIds : d # e /\ e \in Calls(d) /\ d \in CalledBy(e)
    /\ \E d \in NodeIds : d \in Calls(d)

(* C2: edge insertion is idempotent: after a caller/callee pair is resolved *)
(* (for the first time or again) the callee occurs exactly once in the      *)
(* caller's Calls and the caller exactly once in the callee's CalledBy, and *)
(* no Calls or CalledBy list ever holds a duplicate.                        *)
NoDuplicates ==
    \A d, e \in NodeIds :
        /\ Occurrences(nodes[d].Calls, e) <= 1
        /\ Occurrences(nodes[d].CalledBy, e) <= 1

IdempotentEdgeInsertion ==
    [][/\ NoDuplicates'
       /\ AtLinkedCall =>
            /\ Occurrences(nodes'[allNodes[currentFuncKey]].Calls,
                           allNodes[CalledKey]) = 1
            /\ Occurrences(nodes'[allNodes[CalledKey]].CalledBy,
                           allNodes[currentFuncKey]) = 1]_vars

\* the same pair was resolved at two call sites of the open file, and the
\* edge is there
IdempotentEdgeInsertionWitness ==
    /\ fileOpen
    /\ currentFuncKey \in DOMAIN allNodes
    /\ \E i, j \in 1..(nodeIdx - 1) :
        /\ i < j
        /\ CurrentWalk[i].ev = "call" /\ CurrentWalk[j].ev = "call"
        /\ CurrentWalk[i].inBody /\ CurrentWalk[j].inBody
        /\ CurrentWalk[i].d = CurrentWalk[j].d
        /\ buildFunctionKey(packageKey, CurrentWalk[i].d) = currentFuncKey
        /\ LET k == resolveCallExpr(CurrentWalk[i].call, packageKey, importMap)
           IN  /\ k = resolveCallExpr(CurrentWalk[j].call, packageKey, importMap)
               /\ k \in DOMAIN allNodes
               /\ allNodes[k] \in Calls(allNodes[currentFuncKey])

(* C3: registry insertion is first-seen-wins: once a key is bound to a     *)
(* declaration, it stays bound to that declaration after every later       *)
(* insertion under the same key.                                           *)
FirstSeenWins ==
    [][\A k \in DOMAIN allNodes :
          k \in DOMAIN allNodes' /\ allNodes'[k] = allNodes[k]]_vars

----------------------------------------------------------------------------
(* The call graph as a set of key pairs, and the same set computed from    *)
(* the set of units alone                                                  *)

\* the edges, each node named by the keys it is registered under
EdgeKeys ==
    {p \in (DOMAIN allNodes) \X (DOMAIN allNodes) :
        allNodes[p[2]] \in Calls(allNodes[p[1]])}

\* the keys one unit registers
UnitKeys(u) ==
    {NodeName(PackageKey(u),
              IF u.decls[i].kind = "func" THEN processFunction(u.decls[i], u.relPath)
              ELSE processType(u.decls[i], u.relPath)) :
        i \in {j \in DOMAIN u.decls : u.decls[j].kind # "var"}}

\* the (caller key, callee key) pairs the traversal of one unit resolves:
\* w the events, cur the key of the last FuncDecl met (Empty before the first)
RECURSIVE ResolvedPairs(_, _, _, _, _)
ResolvedPairs(w, i, cur, pkgKey, imap) ==
    IF i > Len(w) THEN {}
    ELSE IF w[i].ev = "func"
    THEN ResolvedPairs(w, i + 1, buildFunctionKey(pkgKey, w[i].d), pkgKey, imap)
    ELSE LET k == resolveCallExpr(w[i].call, pkgKey, imap)
         IN  (IF cur # Empty /\ k # Empty THEN {<<cur, k>>} ELSE {})
                \cup ResolvedPairs(w, i + 1, cur, pkgKey, imap)

UnitPairs(u) ==
    ResolvedPairs(Walk(u.decls, 1), 1, Empty, PackageKey(u),
                  buildImportMap(<<>>, u.imports, 1))

\* a function of a set of units only, not of their order
EdgesOfUnitSet(U) ==
    LET keys == UNION {UnitKeys(u) : u \in U}
    IN  {p \in UNION {UnitPairs(u) : u \in U} : p[1] \in keys /\ p[2] \in keys}

Parsed == {u \in Range(order) : u.ok}

\* the parsed units the walk of analyzeFunctionCalls hands to the traversal:
\* none when the walk stops at the root
Analysed == IF SkipRoot THEN {} ELSE Parsed

(* C4: the final set of call edges, as (callerKey, calleeKey) pairs, is a  *)
(* function of the set of units and not of the order they are visited in;  *)
(* a call to a symbol declared in a unit visited later produces its edge.  *)
OrderIndependentEdges ==
    AnalysisDone => EdgeKeys = EdgesOfUnitSet(Analysed)

\* position of the file a node was declared in
PositionOf(d) == CHOOSE i \in DOMAIN order : order[i].relPath = nodes[d].FilePath

\* the analysis is over and some edge leads to a declaration of a later unit
OrderIndependentEdgesWitness ==
    /\ AnalysisDone
    /\ \E d \in Registered : \E e \in Calls(d) : PositionOf(e) > PositionOf(d)

(* C5: no call-resolution step happens before every unit has been          *)
(* extracted, and from the first call-resolution step on the registry's    *)
(* key-to-declaration mapping never changes.                               *)
ResolutionStep == <<resolveIdx, fileOpen, nodeIdx>>' # <<resolveIdx, fileOpen, nodeIdx>>
ResolutionBegun == fileOpen \/ resolveIdx > 1

ExtractionBarrier ==
    [][/\ ResolutionStep => extractIdx > Len(order)
       /\ (ResolutionBegun \/ ResolutionStep) => allNodes' = allNodes]_vars

\* a call is being resolved against a registry filled from several units
ExtractionBarrierWitness ==
    /\ AtResolvedCall
    /\ resolveIdx < Len(order)
    /\ Cardinality(DOMAIN allNodes) > 1

(* C6: a call expression outside every callable body adds no edge,         *)
(* wherever it stands in the unit.                                         *)
OutsideCallsIgnored ==
    [][(AtCall /\ ~CurrentEvent.inBody) => nodes' = nodes]_vars

----------------------------------------------------------------------------
(* The units as written, for the claims about particular call shapes *)

\* the function declarations (no receiver) of a parsed unit
FuncDecls(u) ==
    {u.decls[i] : i \in {j \in DOMAIN u.decls :
                            u.decls[j].kind = "func" /\ u.decls[j].recv = "none"}}

\* the callables of a parsed unit, functions and methods
Callables(u) ==
    {u.decls[i] : i \in {j \in DOMAIN u.decls : u.decls[j].kind = "func"}}

\* the body of callable d of unit u holds a call that resolves to key k
BodyCalls(u, d, k) ==
    \E i \in DOMAIN d.body :
        resolveCallExpr(d.body[i], PackageKey(u),
                        buildImportMap(<<>>, u.imports, 1)) = k

IsRegisteredFunction(k) ==
    k \in DOMAIN allNodes /\ nodes[allNodes[k]].Type = "function"

(* C7: for registered functions A and B of a package p, if the body of A   *)
(* holds the bare call B(), then after analysis the edge p:A -> p:B        *)
(* exists, and when A is the only caller of B, B has exactly one incoming  *)
(* edge.                                                                   *)
BareCallEdge ==
    AnalysisDone =>
        \A u \in Analysed : \A a \in FuncDecls(u) : \A i \in DOMAIN a.body :
            LET keyA == PackageKey(u) \o Colon \o a.name
                keyB == PackageKey(u) \o Colon \o a.body[i].sel
            IN  (/\ a.body[i].shape = "ident"
                 /\ IsRegisteredFunction(keyA)
                 /\ IsRegisteredFunction(keyB))
                => /\ <<keyA, keyB>> \in EdgeKeys
                   /\ (\A v \in Analysed : \A c \in Callables(v) :
                          BodyCalls(v, c, keyB)
                            => buildFunctionKey(PackageKey(v), c) = keyA)
                      => Len(nodes[allNodes[keyB]].CalledBy) = 1

(* C8: a selector call whose base is an alias of the unit's import map     *)
(* resolves to importPath:Name; when no declaration is registered under    *)
(* that key, no Calls or CalledBy changes.                                 *)
AliasKey == importMap[CurrentEvent.call.x] \o Colon \o CurrentEvent.call.sel
AtAliasCall ==
    /\ AtCall /\ currentFunc
    /\ CurrentEvent.call.shape = "selIdent"
    /\ CurrentEvent.call.x \in DOMAIN importMap

AliasedImportCall ==
    [][AtAliasCall =>
        /\ callCounts' = Increment(callCounts, AliasKey)
        /\ AliasKey \notin DOMAIN allNodes => nodes' = nodes]_vars

\* u.Do() has been resolved to l/u:Do while package l/u was analysed and
\* declares Do, and no declaration is registered under l/u:Do
AliasedImportCallWitness ==
    /\ UnitD \in Parsed
    /\ (sLU \o Colon \o sDo) \in DOMAIN callCounts
    /\ (sLU \o Colon \o sDo) \notin DOMAIN allNodes
    /\ (sLU \o Colon \o sU \o Colon \o sDo) \in DOMAIN allNodes

(* C9: a selector call x.M() whose base x is not an import alias resolves  *)
(* to packageKey:x.M from the text of x, whatever the type of x; when x is *)
(* an alias the import case is taken and not the heuristic.                *)
HeuristicKey ==
    packageKey \o Colon \o CurrentEvent.call.x \o Dot \o CurrentEvent.call.sel
AtSelectorCall ==
    AtCall /\ currentFunc /\ CurrentEvent.call.shape = "selIdent"

HeuristicMethodCall ==
    [][AtSelectorCall =>
        IF CurrentEvent.call.x \in DOMAIN importMap
        THEN HeuristicKey \notin DOMAIN callCounts' \ DOMAIN callCounts
        ELSE /\ callCounts' = Increment(callCounts, HeuristicKey)
             /\ nodes' = Link(nodes, allNodes, currentFuncKey, HeuristicKey)]_vars

\* t.M() with t a T was resolved to p:p:t.M: counted, and no edge from A to
\* the registered method p:p:T.M; and x.M() was resolved to the alias x
HeuristicMethodCallWitness ==
    LET pk == sP \o Colon \o sP
        keyA == pk \o Colon \o sA
        tM == pk \o Colon \o sT1 \o Dot \o sM
        TM == pk \o Colon \o sT \o Dot \o sM
    IN  /\ AnalysisDone
        /\ tM \in DOMAIN callCounts
        /\ TM \in DOMAIN allNodes /\ keyA \in DOMAIN allNodes
        /\ allNodes[TM] \notin Calls(allNodes[keyA])
        /\ (sLX \o Colon \o sM) \in DOMAIN callCounts
        /\ (pk \o Colon \o sX \o Dot \o sM) \in DOMAIN allNodes

(* C10: every declaration that occurs in a Calls or CalledBy list, and     *)
(* every declaration that owns a non-empty one, is registered; a resolved  *)
(* call with an endpoint key absent from the registry changes no list.     *)
EdgesBetweenRegistered ==
    \A d \in NodeIds :
        (nodes[d].Calls # <<>> \/ nodes[d].CalledBy # <<>>)
            => /\ d \in Registered
               /\ Calls(d) \subseteq Registered
               /\ CalledBy(d) \subseteq Registered

AbsentEndpointNoOp ==
    [][/\ EdgesBetweenRegistered'
       /\ (AtResolvedCall /\ ~AtLinkedCall) => nodes' = nodes]_vars

\* edges exist next to an overwritten (unregistered) declaration, and the
\* analysis has resolved calls to keys absent from the registry
AbsentEndpointNoOpWitness ==
    /\ AnalysisDone
    /\ \E d \in NodeIds : nodes[d].Calls # <<>>
    /\ \E d \in NodeIds :
          nodes[d].Type \in {"function", "method"} /\ d \notin Registered
    /\ \E k \in DOMAIN callCounts : k \notin DOMAIN allNodes

----------------------------------------------------------------------------
(* The directory tree after sortTree *)

\* a strictly before b in lexicographic (byte) order
LexBefore(a, b) ==
    \E k \in 1..(Len(b)) :
        /\ k <= Len(a) + 1
        /\ \A i \in 1..(k - 1) : a[i] = b[i]
        /\ (k = Len(a) + 1 \/ Ord(a[k]) < Ord(b[k]))

DirsFirstThenByName(tn) ==
    \A n \in DOMAIN tn :
        LET c == tn[n].Children IN
        \A i, j \in DOMAIN c :
            i < j =>
                /\ ~(tn[c[j]].IsDir /\ ~tn[c[i]].IsDir)
                /\ (tn[c[i]].IsDir = tn[c[j]].IsDir)
                     => LexBefore(tn[c[i]].Name, tn[c[j]].Name)

(* C17: after sortTree, at every level of the directory tree and for any   *)
(* insertion order of the paths, all directory children precede all file   *)
(* children, and the directories and the files are each in ascending       *)
(* lexicographic order of name.                                            *)
SortedDirectoryTree == (pc # "build") => DirsFirstThenByName(dirNodes)

\* the tree was sorted; the root has a file inserted before a directory, and
\* two files of one directory were inserted in descending order of name
SortedDirectoryTreeWitness ==
    /\ pc = "analyze"
    /\ \E i, j \in DOMAIN order :
        /\ i < j
        /\ Dir(order[i].relPath) = Dot /\ Dir(order[j].relPath) # Dot
    /\ \E i, j \in DOMAIN order :
        /\ i < j
        /\ Dir(order[i].relPath) = Dir(order[j].relPath)
        /\ LexBefore(order[j].relPath, order[i].relPath)

----------------------------------------------------------------------------
(* The package tree: codeRoot -> packages -> declarations *)

NamesOf(ids) == [i \in DOMAIN ids |-> nodes[ids[i]].Name]

IsDeclared(d) == d.kind # "var"
DeclNames(u) ==
    LET ds == SelectSeq(u.decls, IsDeclared)
    IN  [i \in DOMAIN ds |-> ds[i].name]

\* the names declared for package key k by the first n units, in visiting
\* order and, within a unit, in source order
RECURSIVE DeclaredInOrder(_, _)
DeclaredInOrder(k, n) ==
    IF n = 0 THEN <<>>
    ELSE DeclaredInOrder(k, n - 1)
            \o (IF order[n].ok /\ PackageKey(order[n]) = k
                THEN DeclNames(order[n]) ELSE <<>>)

\* the package keys of the first n units, each at its first visit
RECURSIVE PackagesInOrder(_)
PackagesInOrder(n) ==
    IF n = 0 THEN <<>>
    ELSE LET prev == PackagesInOrder(n - 1)
             k == PackageKey(order[n])
         IN  IF order[n].ok /\ k \notin Range(prev) THEN Append(prev, k) ELSE prev

NamesAscending(ids) ==
    \A i, j \in DOMAIN ids :
        i < j => ~LexBefore(nodes[ids[j]].Name, nodes[ids[i]].Name)

(* C18 as stated: the package nodes under the root and the declaration     *)
(* nodes under each package are in lexicographic order of name, whatever   *)
(* the order the units were visited in.                                    *)
SortedPackageTree ==
    (pc # "build") =>
        /\ NamesAscending(codeRoot)
        /\ \A i \in DOMAIN codeRoot : NamesAscending(nodes[codeRoot[i]].Children)

(* C18 amended: the package tree is in discovery order: the package nodes  *)
(* under the root in the order of the first visited unit of each package,  *)
(* the declaration nodes under a package in unit visiting order and,       *)
(* within a unit, in source order.                                         *)
DiscoveryOrderPackageTree ==
    LET keys == PackagesInOrder(extractIdx - 1)
    IN  /\ Len(codeRoot) = Len(keys)
        /\ \A i \in DOMAIN codeRoot :
            /\ keys[i] \in DOMAIN packages
            /\ codeRoot[i] = packages[keys[i]]
            /\ NamesOf(nodes[codeRoot[i]].Children)
                    = DeclaredInOrder(keys[i], extractIdx - 1)

\* two packages and a package whose declarations come from two units, the
\* names not in lexicographic order
DiscoveryOrderPackageTreeWitness ==
    /\ pc = "render"
    /\ Len(codeRoot) >= 2
    /\ \E i \in DOMAIN codeRoot : ~NamesAscending(nodes[codeRoot[i]].Children)
    /\ \E i, j \in DOMAIN order :
        /\ i # j /\ order[i].ok /\ order[j].ok
        /\ PackageKey(order[i]) = PackageKey(order[j])

----------------------------------------------------------------------------
(* The import alias map of the open file *)

NoSlash(t) == \A i \in DOMAIN t : t[i] # "/"

\* the alias an import stands for: its explicit local name, otherwise the
\* last "/"-separated segment of its import path
AliasOf(imp) ==
    IF imp.name # Empty THEN imp.name
    ELSE CHOOSE t \in {SubSeq(imp.path, i, Len(imp.path)) : i \in 1..(Len(imp.path) + 1)} :
            /\ NoSlash(t)
            /\ (Len(t) = Len(imp.path) \/ imp.path[Len(imp.path) - Len(t)] = "/")

OpenImports == order[resolveIdx].imports

LaterWins(imps) ==
    /\ DOMAIN importMap = {AliasOf(imps[i]) : i \in DOMAIN imps}
    /\ \A i \in DOMAIN imps :
        (\A j \in DOMAIN imps : j > i => AliasOf(imps[j]) # AliasOf(imps[i]))
            => importMap[AliasOf(imps[i])] = imps[i].path

(* C19: the import alias map of a unit maps, for each import, the explicit *)
(* local name if given and otherwise the last segment of the import path   *)
(* to that import path; of two imports with the same alias the later one   *)
(* is kept.                                                                *)
ImportAliasMap == fileOpen => LaterWins(OpenImports)

----------------------------------------------------------------------------
(* Units that fail to parse *)

\* the unit whose declaration the registry holds under key k when only the
\* parsed units are looked at: the last one, in visiting order, that has k
LastDeclaring(k) ==
    LET is == {i \in DOMAIN order : order[i].ok /\ k \in UnitKeys(order[i])}
    IN  order[CHOOSE i \in is : \A j \in is : j <= i]

(* C14: a unit that fails to parse contributes no declaration, no package  *)
(* node and no call edge, and the run goes on: after the analysis the      *)
(* registry is that of the parsed units of the batch and the edge set that *)
(* of the parsed units the traversal was handed.                           *)
ParseFailureIsolation ==
    AnalysisDone =>
        /\ DOMAIN allNodes = UNION {UnitKeys(u) : u \in Parsed}
        /\ \A k \in DOMAIN allNodes :
              nodes[allNodes[k]].FilePath = LastDeclaring(k).relPath
        /\ DOMAIN packages = {PackageKey(u) : u \in Parsed}
        /\ \A d \in NodeIds : \A u \in Range(order) \ Parsed :
              nodes[d].FilePath # u.relPath
        /\ EdgeKeys \subseteq EdgesOfUnitSet(Analysed)
        /\ EdgesOfUnitSet(Analysed) \subseteq EdgeKeys

\* a batch with the failing unit between parsed ones was analysed to the
\* end, and the parsed units have edges
ParseFailureIsolationWitness ==
    /\ AnalysisDone
    /\ \E i, j, k \in DOMAIN order :
          i < j /\ j < k /\ order[i].ok /\ ~order[j].ok /\ order[k].ok
    /\ EdgeKeys # {}

----------------------------------------------------------------------------
(* Qualified symbol keys *)

\* what tells two declarations apart: package path, package short name,
\* receiver type (none for a function or a type) and name
Identity(u, d) ==
    <<Dir(u.relPath), u.pkg, d.recv # "none", d.rname, d.name>>

\* the key processGoFile registers declaration d of unit u under
KeyOfDecl(u, d) ==
    NodeName(PackageKey(u),
             IF d.kind = "func" THEN processFunction(d, u.relPath)
             ELSE processType(d, u.relPath))

Extracted == {order[i] : i \in {j \in DOMAIN order : j < extractIdx /\ order[j].ok}}
Declared(u) == {u.decls[i] : i \in {j \in DOMAIN u.decls : u.decls[j].kind # "var"}}

(* C15: two declarations that differ in package path, package short name,  *)
(* receiver type or name never get the same key; a method, also one whose  *)
(* receiver type name cannot be extracted, never shares a key with a       *)
(* function of the same name in its package.                               *)
CollisionFreeKeys ==
    \A u1, u2 \in Extracted : \A d1 \in Declared(u1) : \A d2 \in Declared(u2) :
        Identity(u1, d1) # Identity(u2, d2)
            => /\ KeyOfDecl(u1, d1) # KeyOfDecl(u2, d2)
               /\ KeyOfDecl(u1, d1) \in DOMAIN allNodes
               /\ KeyOfDecl(u2, d2) \in DOMAIN allNodes

----------------------------------------------------------------------------
(* The most-called table *)

Done == pc = "done"

\* the call expressions of the analysed units that the traversal counts for
\* key k: those met after the first FuncDecl of their file that resolve to k
CallSites(k) ==
    {p \in UNION {{<<i, j>> : j \in DOMAIN Walk(order[i].decls, 1)} :
                    i \in {n \in DOMAIN order : order[n] \in Analysed}} :
        LET w == Walk(order[p[1]].decls, 1)
        IN  /\ w[p[2]].ev = "call"
            /\ \E j \in 1..(p[2] - 1) : w[j].ev = "func"
            /\ resolveCallExpr(w[p[2]].call, PackageKey(order[p[1]]),
                               buildImportMap(<<>>, order[p[1]].imports, 1)) = k}

RowNode(r) == allNodes[r.Key]

(* C11 as stated: the count reported for a declaration in the most-called  *)
(* table is the size of its CalledBy set.                                  *)
CountIsDistinctCallers ==
    Done => \A i \in DOMAIN ranking :
                ranking[i].Count = Cardinality(CalledBy(RowNode(ranking[i])))

(* C11 amended: the count reported for a declaration is the number of call *)
(* expressions counted for its key, every call of one caller counted; it   *)
(* is never less than the size of the declaration's CalledBy set.          *)
CountIsCallSites ==
    Done => \A i \in DOMAIN ranking :
                /\ ranking[i].Count = Cardinality(CallSites(ranking[i].Key))
                /\ ranking[i].Count >= Cardinality(CalledBy(RowNode(ranking[i])))

\* a row whose count exceeds the number of distinct callers
CountIsCallSitesWitness ==
    /\ Done
    /\ \E i \in DOMAIN ranking :
          ranking[i].Count > Cardinality(CalledBy(RowNode(ranking[i])))
    /\ \E i \in DOMAIN ranking :
          ranking[i].Count = Cardinality(CalledBy(RowNode(ranking[i])))

(* C12: the most-called table is a function of the input: rows in          *)
(* descending count, rows of equal count in the discovery order of their   *)
(* declarations.                                                           *)
DeterministicRanking ==
    Done => \A i, j \in DOMAIN ranking :
                i < j =>
                    \/ ranking[i].Count > ranking[j].Count
                    \/ /\ ranking[i].Count = ranking[j].Count
                       /\ RowNode(ranking[i]) < RowNode(ranking[j])

(* C13: the most-called table holds declarations of kind function or       *)
(* method only.                                                            *)
RankingOnlyCallables ==
    Done => \A i \in DOMAIN ranking : ranking[i].Type \in {"function", "method"}

----------------------------------------------------------------------------
(* C16: for every batch of units, failing ones and call cycles included,   *)
(* the run finishes extraction, resolution and rendering.                  *)
Terminates == <>Done

\* a finished run over a batch with a failing unit and a self-recursive
\* function, the graph rendered
TerminatesWitness ==
    /\ Done
    /\ \E u \in Range(order) : ~u.ok
    /\ \E d \in NodeIds : d \in Calls(d)
    /\ graphOut.edges # {}

----------------------------------------------------------------------------
(* Edges and packages *)

\* the package node a declaration node hangs under
PackageOf(d) ==
    CHOOSE i \in DOMAIN codeRoot : d \in Range(nodes[codeRoot[i]].Children)

Colons(k) == Cardinality({i \in DOMAIN k : k[i] = ":"})

SamePackageEdges ==
    \A d \in NodeIds : \A e \in Calls(d) : PackageOf(d) = PackageOf(e)

(* C20: every edge connects two declarations of one package; the key of an *)
(* import-alias call is importPath:Name, every registry key is             *)
(* packagePath:packageName:Name, so such a call never yields an edge.      *)
NoCrossPackageEdge ==
    [][/\ SamePackageEdges'
       /\ \A k \in DOMAIN allNodes : Colons(k) >= 2
       /\ AtAliasCall =>
            /\ Colons(AliasKey) = 1
            /\ AliasKey \notin DOMAIN allNodes
            /\ nodes' = nodes]_vars

\* u.Do() in package p was resolved while package l/u, which declares Do,
\* is in the registry; the graph has edges and none from p to l/u
NoCrossPackageEdgeWitness ==
    /\ Done
    /\ UnitA \in Parsed /\ UnitD \in Parsed
    /\ (sLU \o Colon \o sDo) \in DOMAIN callCounts
    /\ (sLU \o Colon \o sU \o Colon \o sDo) \in DOMAIN allNodes
    /\ \E d \in NodeIds : Calls(d) # {} /\ nodes[d].FilePath = UnitA.relPath

====
